---- MODULE Spec2Model ----
(***************************************************************************)
(* doodle-classifier: the PCA engine of src/ml/pca.js (runPCA2D and        *)
(* projectWithPCA with their helpers) and the part of src/App.jsx that     *)
(* feeds it (the sample store, the stroke-end prediction, Run PCA).        *)
(*                                                                         *)
(* Five specifications:                                                    *)
(*   PcaSpec    one call of an exported function of pca.js on arguments    *)
(*              drawn from bounded sets, followed by the projection of the *)
(*              call's own samples;                                        *)
(*   HeapSpec   runPCA2D and projectWithPCA one helper call at a time,     *)
(*              their arrays in a heap, and a second call of runPCA2D on   *)
(*              the same collection;                                       *)
(*   Spec       the App component as a state machine of its handlers, each *)
(*              async handler cut at its awaits, from the mounted          *)
(*              component on;                                              *)
(*   LiveSpec   Spec with the fairness of the steps of a Run PCA action    *)
(*              in flight: a timer fires, a call returns or throws;        *)
(*   StoreSpec  the handlers that write the sample store, from the app     *)
(*              with SampleCap - 1 or SampleCap samples stored.            *)
(*                                                                         *)
(* Numbers.  JavaScript numbers are binary floating point.  They are       *)
(* modelled as binary floating point too: a number is <<m, e>>, of value   *)
(* m * 2^e, with a significand of MantBits bits and round-to-nearest after *)
(* every operation, and NaN.  The significand is shorter than Float32's    *)
(* or a double's, so every rounding of the program is present, only        *)
(* coarser.  In the App component a feature vector is its length and the   *)
(* stroke it was computed from, and a PCA result is the lengths of its     *)
(* three fields and the samples it was computed from.                      *)
(***************************************************************************)
EXTENDS Integers, Sequences, FiniteSets, TLC

VARIABLES
  \* ---- one call of pca.js (PcaSpec)
  lpc,        \* "idle" | "call" | "returned" | "projected"
  op,         \* "runPCA2D" | "center" | "projectWithPCA" | "none"
  argEmb,     \* runPCA2D's argument: Null or Some(array of Null / Some(vector))
  argOld,     \* a second argument, differing from argEmb in its oldest entries only
  rnd,        \* the values Math.random() - 0.5 returns to the two power iterations
  argVec,     \* projectWithPCA's arguments
  argMean,
  argComps,
  res,        \* what runPCA2D returned (or that it threw)
  cen,        \* Null, or Some of what centerEmbeddings was given and returned
  cenOld,     \* the same for argOld
  proj,       \* what projectWithPCA returned (or that it threw)
  back,       \* projectWithPCA of every sample of the run with the run's own basis
  \* ---- pca.js statement by statement, over a heap of arrays (HeapSpec)
  hpc,        \* the position in runPCA2D or projectWithPCA
  heap,       \* the arrays allocated so far; an array's address is its index
  heap0,      \* the heap when the first call started
  loc,        \* the local variables of the call: addresses and numbers
  \* ---- the App component (Spec)
  embeddingSource, selectedModel, modelReady, cnnEmbeddingOutName,
  lastEmbedding,  \* lastEmbeddingRef.current
  samples, pcaState, currentPoint, pcaRunning, pcaError, modelError,
  predictions,
  pred,       \* the stroke-end prediction in flight
  run,        \* the Run PCA action in flight
  load,       \* the model load in flight
  cnnLoaded, logregLoaded,  \* cnnRef.current / logregRef.current are set
  strokes,    \* the number of strokes drawn so far
  pcaCalls,   \* the number of calls of runPCA2D so far
  budget      \* how many more of each user action the model explores

heapVars == <<hpc, heap, heap0, loc>>
libVars == <<lpc, op, argEmb, argOld, rnd, argVec, argMean, argComps, res, cen, cenOld, proj,
             back, heapVars>>
appVars == <<embeddingSource, selectedModel, modelReady, cnnEmbeddingOutName,
             lastEmbedding, samples, pcaState, currentPoint, pcaRunning, pcaError,
             modelError, predictions, pred, run, load, cnnLoaded, logregLoaded,
             strokes, pcaCalls, budget>>
vars == <<libVars, appVars>>

(***************************************************************************)
(* JavaScript values that may be absent (null / undefined).                *)
(***************************************************************************)
Null == <<>>
Some(x) == <<x>>
IsNull(o) == Len(o) = 0
Val(o) == o[1]

(***************************************************************************)
(* Floating point.                                                         *)
(***************************************************************************)
MantBits == 12

Abs(n) == IF n < 0 THEN -n ELSE n
Sgn(n) == IF n < 0 THEN -1 ELSE 1

\* the number of bits of a, 1 <= a < 2^31
BitLen(a) ==
  IF a < 65536
  THEN IF a < 256
       THEN IF a < 16
            THEN IF a < 4 THEN (IF a < 2 THEN a ELSE 2) ELSE (IF a < 8 THEN 3 ELSE 4)
            ELSE IF a < 64 THEN (IF a < 32 THEN 5 ELSE 6) ELSE (IF a < 128 THEN 7 ELSE 8)
       ELSE IF a < 4096
            THEN IF a < 1024 THEN (IF a < 512 THEN 9 ELSE 10) ELSE (IF a < 2048 THEN 11 ELSE 12)
            ELSE IF a < 16384 THEN (IF a < 8192 THEN 13 ELSE 14) ELSE (IF a < 32768 THEN 15 ELSE 16)
  ELSE IF a < 16777216
       THEN IF a < 1048576
            THEN IF a < 262144 THEN (IF a < 131072 THEN 17 ELSE 18) ELSE (IF a < 524288 THEN 19 ELSE 20)
            ELSE IF a < 4194304 THEN (IF a < 2097152 THEN 21 ELSE 22) ELSE (IF a < 8388608 THEN 23 ELSE 24)
       ELSE IF a < 268435456
            THEN IF a < 67108864 THEN (IF a < 33554432 THEN 25 ELSE 26) ELSE (IF a < 134217728 THEN 27 ELSE 28)
            ELSE IF a < 1073741824 THEN (IF a < 536870912 THEN 29 ELSE 30) ELSE 31

NaN == <<0, 100000>>
IsNaN(f) == f = NaN
\* Infinity (sign 1) and -Infinity (sign -1)
Inf(sign) == <<sign, NaN[2]>>
IsInf(f) == f[2] = NaN[2] /\ f[1] /= 0
Zero == <<0, 0>>

\* Every intermediate value of the model is handed on as an operator's parameter
\* rather than named in a LET, so that each is evaluated once.

\* q: |m| / 2^sh rounded, which may have reached 2^MantBits
FRounded(m, e, sh, q) ==
  IF q = 2^MantBits THEN <<Sgn(m) * 2^(MantBits - 1), e + sh + 1>>
  ELSE <<Sgn(m) * q, e + sh>>

\* sh: the number of bits m has too many
FShifted(m, e, sh) ==
  IF sh <= 0 THEN <<m * 2^(-sh), e + sh>>
  ELSE FRounded(m, e, sh, (Abs(m) + 2^(sh - 1)) \div 2^sh)

\* m * 2^e rounded to MantBits bits, ties away from zero
FNorm(m, e) ==
  IF m = 0 THEN Zero ELSE FShifted(m, e, BitLen(Abs(m)) - MantBits)

FromInt(n) == FNorm(n, 0)
FNeg(f) == IF IsNaN(f) THEN NaN ELSE <<-f[1], f[2]>>
FMul(f, g) ==
  IF IsNaN(f) \/ IsNaN(g) THEN NaN
  ELSE IF IsInf(f) \/ IsInf(g)
  THEN (IF f[1] = 0 \/ g[1] = 0 THEN NaN ELSE Inf(Sgn(f[1]) * Sgn(g[1])))
  ELSE FNorm(f[1] * g[1], f[2] + g[2])
FAdd(f, g) ==
  IF IsNaN(f) \/ IsNaN(g) THEN NaN
  ELSE IF IsInf(f) THEN (IF IsInf(g) /\ g[1] /= f[1] THEN NaN ELSE f)
  ELSE IF IsInf(g) THEN g
  ELSE IF f[1] = 0 THEN g
  ELSE IF g[1] = 0 THEN f
  ELSE IF f[2] - g[2] > MantBits + 2 THEN f
  ELSE IF g[2] - f[2] > MantBits + 2 THEN g
  ELSE IF f[2] >= g[2] THEN FNorm(f[1] * 2^(f[2] - g[2]) + g[1], g[2])
  ELSE FNorm(g[1] * 2^(g[2] - f[2]) + f[1], f[2])
FSub(f, g) == FAdd(f, FNeg(g))
\* x / 0 is an infinity in JavaScript; no divisor of pca.js is 0 (each has 1e-12
\* added to a value >= 0), and the model gives NaN for it
FDiv(f, g) ==
  IF IsNaN(f) \/ IsNaN(g) \/ g[1] = 0 THEN NaN
  ELSE IF IsInf(f) THEN (IF IsInf(g) THEN NaN ELSE Inf(Sgn(f[1]) * Sgn(g[1])))
  ELSE IF IsInf(g) THEN Zero
  ELSE FNorm(Sgn(f[1]) * Sgn(g[1]) * ((Abs(f[1]) * 2^(MantBits + 2)) \div Abs(g[1])),
             f[2] - g[2] - (MantBits + 2))

RECURSIVE ISqrtBits(_, _, _)
ISqrtBits(n, r, b) ==
  IF b = 0 THEN r
  ELSE IF (r + b) * (r + b) <= n THEN ISqrtBits(n, r + b, b \div 2)
  ELSE ISqrtBits(n, r, b \div 2)

\* Math.sqrt: NaN for a negative number
FSqrt(f) ==
  IF IsNaN(f) \/ f[1] < 0 THEN NaN
  ELSE IF f[1] = 0 \/ IsInf(f) THEN f
  ELSE IF f[2] % 2 /= 0
  THEN FNorm(ISqrtBits(2 * f[1] * 2^14, 0, 16384), (f[2] - 1 - 14) \div 2)
  ELSE FNorm(ISqrtBits(f[1] * 2^14, 0, 16384), (f[2] - 14) \div 2)

\* Math.max(0, x): NaN for NaN
FMax0(f) == IF IsNaN(f) THEN NaN ELSE IF f[1] < 0 THEN Zero ELSE f

FLeq(f, g) == ~IsNaN(f) /\ ~IsNaN(g) /\ FSub(g, f)[1] >= 0
FAbs(f) == IF IsNaN(f) THEN NaN ELSE <<Abs(f[1]), f[2]>>

\* a number assigned to an element of a Float32Array: Infinity from 2^F32MaxExp on
\* (smaller numbers are rounded, as every number of the model is)
F32MaxExp == 128
Stored(f) ==
  IF ~IsNaN(f) /\ ~IsInf(f) /\ f[1] /= 0 /\ f[2] + MantBits > F32MaxExp
  THEN Inf(Sgn(f[1]))
  ELSE f

\* the 1e-12 of norm and computeComponents
Eps == FDiv(FromInt(1), FMul(FromInt(1000000), FromInt(1000000)))

\* tenths: the literals of the inputs
Tenths(k) == FDiv(FromInt(k), FromInt(10))

\* a[i] of a JavaScript array used as a number: undefined past its end, NaN in
\* arithmetic
At(a, i) == IF i <= Len(a) THEN a[i] ELSE NaN
\* a[i] without the ?? 0
AtUndefined(a, i) == IF i <= Len(a) THEN a[i] ELSE NaN
\* a[i] ?? 0
AtOr0(a, i) == IF i <= Len(a) THEN a[i] ELSE Zero

\* the array [f(1), ..., f(n)], evaluated
Arr(f, n) == SubSeq(f, 1, n)

(***************************************************************************)
(* src/ml/pca.js                                                           *)
(***************************************************************************)
PcaCap == 400
Iters == 90

RECURSIVE dotFrom(_, _, _, _)
dotFrom(a, b, i, s) ==
  IF i > Len(a) THEN s
  ELSE dotFrom(a, b, i + 1, FAdd(s, FMul(a[i], At(b, i))))
dot(a, b) == dotFrom(a, b, 1, Zero)

norm(v) == FAdd(FSqrt(dot(v, v)), Eps)

divideAll(v, n) == Arr([i \in 1..Len(v) |-> Stored(FDiv(v[i], n))], Len(v))
normalize(v) == divideAll(v, norm(v))

matVecMul(A, v) == Arr([i \in 1..Len(A) |-> Stored(dot(A[i], v))], Len(A))

\* t times: v = matVecMul(A, v); normalize(v)
RECURSIVE iterateN(_, _, _)
RECURSIVE iterateOn(_, _, _)
iterateN(A, v, t) ==
  IF t = 0 THEN v ELSE iterateOn(A, normalize(matVecMul(A, v)), t - 1)
iterateOn(A, w, t) == IF Len(w) >= 0 THEN iterateN(A, w, t) ELSE w

\* the loop of lines 46-50 (evaluated ten iterations at a time)
RECURSIVE iterate(_, _, _)
RECURSIVE iterateMore(_, _, _)
iterate(A, v, t) ==
  IF t = 0 THEN v
  ELSE IF t < 10 THEN iterateN(A, v, t)
  ELSE iterateMore(A, iterateN(A, v, 10), t - 10)
iterateMore(A, w, t) == IF Len(w) >= 0 THEN iterate(A, w, t) ELSE w

\* lines 52-56: the Rayleigh quotient of the iterated vector
rayleigh(A, v) == [v |-> v, lambda |-> dot(v, matVecMul(A, v))]

\* r: the values of Math.random() - 0.5, one per row
powerIterationTop1(A, iters, r) ==
  rayleigh(A, iterate(A, normalize(SubSeq(r, 1, Len(A))), iters))

deflate(A, v, lambda) ==
  Arr([i \in 1..Len(A) |->
        Arr([j \in 1..Len(A) |-> FSub(A[i][j], FMul(FMul(lambda, v[i]), v[j]))], Len(A))],
      Len(A))

\* s + rows[i][d] + ... + rows[hi][d], added in this order
RECURSIVE sumRange(_, _, _, _, _)
sumRange(rows, d, i, hi, s) ==
  IF i > hi \/ s /= s THEN s
  ELSE sumRange(rows, d, i + 1, hi, Stored(FAdd(s, At(rows[i], d))))

\* the loop of lines 75-78 for coordinate d, from row i on (evaluated twenty rows at
\* a time, in the loop's order)
RECURSIVE sumColumn(_, _, _, _)
RECURSIVE sumColumnOn(_, _, _, _)
sumColumn(rows, d, i, s) ==
  IF i > Len(rows) THEN s
  ELSE IF i + 19 < Len(rows)
  THEN sumColumnOn(rows, d, i + 20, sumRange(rows, d, i, i + 19, s))
  ELSE sumRange(rows, d, i, Len(rows), s)
sumColumnOn(rows, d, i, s) == IF s = s THEN sumColumn(rows, d, i, s) ELSE s

\* lines 74-79 with new Float32Array(N) in place of new Float32Array(D)
meanOfRowCount(rows) ==
  Arr([d \in 1..Len(rows) |-> Stored(FDiv(sumColumn(rows, d, 1, Zero), FromInt(Len(rows))))],
      Len(rows))

\* lines 74-79 with mean[d] /= N - 1 in place of mean[d] /= N
meanOfLessOne(rows) ==
  Arr([d \in 1..Len(rows[1]) |->
        Stored(FDiv(sumColumn(rows, d, 1, Zero), FromInt(Len(rows) - 1)))],
      Len(rows[1]))

\* lines 74-79
meanOf(rows) ==
  Arr([d \in 1..Len(rows[1]) |-> Stored(FDiv(sumColumn(rows, d, 1, Zero), FromInt(Len(rows))))],
      Len(rows[1]))

\* lines 81-89
centered(rows, mean) ==
  [mean |-> mean,
   Xc |-> Arr([i \in 1..Len(rows) |->
                Arr([d \in 1..Len(mean) |-> Stored(FSub(At(rows[i], d), mean[d]))], Len(mean))],
              Len(rows))]

\* rows: the vectors, N >= 1 of them
centerEmbeddings(rows) == centered(rows, meanOf(rows))

\* lines 93-113 without G[j][i] = v (line 105)
gramMatrixUpper(Xc) ==
  Arr([i \in 1..Len(Xc) |->
        Arr([j \in 1..Len(Xc) |-> IF i <= j THEN Stored(dot(Xc[i], Xc[j])) ELSE Zero],
            Len(Xc))],
      Len(Xc))

\* lines 93-113
gramMatrix(Xc) ==
  LET N == Len(Xc)
  IN Arr([i \in 1..N |->
           Arr([j \in 1..N |->
                 Stored(IF i <= j THEN dot(Xc[i], Xc[j]) ELSE dot(Xc[j], Xc[i]))], N)],
         N)

RECURSIVE sumUX(_, _, _, _, _)
sumUX(U, Xc, d, i, s) ==
  IF i > Len(Xc) THEN s
  ELSE sumUX(U, Xc, d, i + 1, FAdd(s, FMul(U[i], Xc[i][d])))

component(Xc, U, invS) ==
  Arr([d \in 1..Len(Xc[1]) |-> Stored(FMul(sumUX(U, Xc, d, 1, Zero), invS))], Len(Xc[1]))

computeComponents(Xc, U2, S2) ==
  << component(Xc, U2[1], FDiv(FromInt(1), FAdd(S2[1], Eps))),
     component(Xc, U2[2], FDiv(FromInt(1), FAdd(S2[2], Eps))) >>

\* line 136 with < 1 in place of < 2
runGuardOne(embeddings) == IsNull(embeddings) \/ Len(Val(embeddings)) < 1

\* line 136: !embeddings || embeddings.length < 2
runGuard(embeddings) == IsNull(embeddings) \/ Len(Val(embeddings)) < 2

\* lines 144-146 with slice(0, 400) in place of slice(N - 400)
windowFirst(list) == IF Len(list) > PcaCap THEN SubSeq(list, 1, PcaCap) ELSE list

\* lines 144-146: embeddings.slice(N - 400) when N > 400
window(list) ==
  IF Len(list) > PcaCap THEN SubSeq(list, Len(list) - PcaCap + 1, Len(list)) ELSE list

\* a TypeError: embeddings[0].length of an absent first element (line 141, and line 72
\* for the window's first), x[d] of an absent element (lines 77 and 85, reached when
\* D > 0)
runThrows(list) ==
  \/ IsNull(list[1])
  \/ IsNull(window(list)[1])
  \/ /\ Len(Val(window(list)[1])) > 0
     /\ \E i \in 1..Len(window(list)) : IsNull(window(list)[i])

\* the vectors centerEmbeddings reads (an absent element is never read when D = 0)
rowsOf(list) ==
  LET w == window(list)
  IN Arr([i \in 1..Len(w) |-> IF IsNull(w[i]) THEN <<>> ELSE Val(w[i])], Len(w))

Sentinel == [threw |-> FALSE, points2d |-> <<>>, mean |-> <<>>, components |-> <<>>]
Thrown == [threw |-> TRUE, points2d |-> <<>>, mean |-> <<>>, components |-> <<>>]

\* lines 158-178: the clamped eigenvalues' roots, the points Z = U * S, the components
scoresAndComponents(c, e1, e2, s1, s2) ==
  [threw |-> FALSE,
   points2d |-> Arr([i \in 1..Len(c.Xc) |-> <<FMul(e1.v[i], s1), FMul(e2.v[i], s2)>>],
                    Len(c.Xc)),
   mean |-> c.mean,
   components |-> computeComponents(c.Xc, <<e1.v, e2.v>>, <<s1, s2>>)]

\* lines 158-161 with Math.sqrt(lambda) in place of Math.sqrt(Math.max(0, lambda))
singularValueUnclamped(lambda) == FSqrt(lambda)

\* lines 158-161: Math.sqrt(Math.max(0, lambda))
singularValue(lambda) == FSqrt(FMax0(lambda))

\* lines 158-161, with the two power iterations' results
afterTop2(c, e1, e2) ==
  scoresAndComponents(c, e1, e2, singularValue(e1.lambda), singularValue(e2.lambda))

\* lines 153-156: the deflation of A by top1, then top2 on the deflated matrix
afterTop1(c, A, e1, r) ==
  afterTop2(c, e1, powerIterationTop1(deflate(A, e1.v, e1.lambda), Iters, r[2]))

\* line 152: top1
eigenSteps(c, A, r) == afterTop1(c, A, powerIterationTop1(A, Iters, r[1]), r)

\* line 149
afterCentering(c, r) == eigenSteps(c, gramMatrix(c.Xc), r)

\* lines 148-178, on the rows of the window
pipeline(rows, r) == afterCentering(centerEmbeddings(rows), r)

runPCA2D(embeddings, r) ==
  IF runGuard(embeddings) THEN Sentinel
  ELSE IF runThrows(Val(embeddings)) THEN Thrown
  ELSE pipeline(rowsOf(Val(embeddings)), r)

\* lines 135-148 alone: whether centerEmbeddings is reached, and then the number of
\* rows it is given (one point is pushed for each, lines 168-170) and the mean it
\* returns (returned unchanged, line 176)
centeringOf(rows) == Some([n |-> Len(rows), mean |-> centerEmbeddings(rows).mean])
centering(embeddings) ==
  IF runGuard(embeddings) \/ runThrows(Val(embeddings)) THEN Null
  ELSE centeringOf(rowsOf(Val(embeddings)))

ProjNull == [kind |-> "null", z |-> <<>>]
ProjThrown == [kind |-> "throw", z |-> <<>>]

\* line 182 with components.length < 2 in place of components.length !== 2
projectGuardAtLeastTwo(embedding, mean, components) ==
  IsNull(embedding) \/ IsNull(mean) \/ IsNull(components) \/ Len(Val(components)) < 2

\* line 182
projectGuard(embedding, mean, components) ==
  IsNull(embedding) \/ IsNull(mean) \/ IsNull(components) \/ Len(Val(components)) /= 2

RECURSIVE projectFrom(_, _, _, _, _)
projectFrom(embedding, mean, comp, i, z) ==
  IF i > Len(embedding) THEN z
  ELSE projectFrom(embedding, mean, comp, i + 1,
                   FAdd(z, FMul(FSub(embedding[i], AtOr0(mean, i)), AtOr0(comp, i))))

projectWithPCA(embedding, mean, components) ==
  IF projectGuard(embedding, mean, components) THEN ProjNull
  ELSE IF /\ Len(Val(embedding)) > 0
          /\ \E k \in 1..2 : IsNull(Val(components)[k])
       THEN ProjThrown   \* components[k][i] of an absent components[k]
  ELSE IF Len(Val(embedding)) = 0 THEN [kind |-> "pair", z |-> <<Zero, Zero>>]
  ELSE [kind |-> "pair",
        z |-> <<projectFrom(Val(embedding), Val(mean), Val(Val(components)[1]), 1, Zero),
                projectFrom(Val(embedding), Val(mean), Val(Val(components)[2]), 1, Zero)>>]

(***************************************************************************)
(* PcaSpec: one call of runPCA2D or projectWithPCA.                        *)
(***************************************************************************)
MaxCoord == 2     \* sample coordinates are 0..MaxCoord
MaxN == 3         \* the power iterations are evaluated for up to MaxN rows

F(n) == FromInt(n)
Coords == 0..MaxCoord
Vecs1 == {<<F(a)>> : a \in Coords}
Vecs2 == {<<F(1), F(0)>>, <<F(0), F(1)>>, <<F(MaxCoord), F(0)>>}

\* every array of n present vectors of V
RECURSIVE Lists(_, _)
Lists(V, n) ==
  IF n = 0 THEN {<<>>}
  ELSE {Append(l, Some(v)) : l \in Lists(V, n - 1), v \in V}

UniformLists == UNION {Lists(Vecs1, n) \cup Lists(Vecs2, n) : n \in 2..MaxN}

\* arrays with an absent element, and arrays of vectors of differing length
OddLists ==
  { <<Null, Some(<<F(1)>>)>>, <<Some(<<F(1)>>), Null>>, <<Null, Null>>,
    <<Some(<<>>), Null>>, <<Some(<<>>), Some(<<>>)>>,
    <<Some(<<F(1), F(0)>>), Some(<<F(2)>>)>>, <<Some(<<F(2)>>), Some(<<F(1), F(0)>>)>>,
    <<Some(<<F(1)>>), Some(<<F(2)>>), Null>> }

ShortLists == {<<>>, <<Null>>} \cup Lists(Vecs1 \cup Vecs2 \cup {<<>>}, 1)

RunInputs == {Null} \cup {Some(l) : l \in ShortLists \cup UniformLists \cup OddLists}

\* Math.random() - 0.5 lies in [-0.5, 0.5)
RandA == <<Tenths(3), Tenths(-2), Tenths(1), Tenths(-4)>>
RandB == <<Tenths(-1), Tenths(4), Tenths(2), Tenths(-3)>>
RandPairs == {<<RandA, RandB>>, <<RandB, RandA>>}

\* more than PcaCap samples: sample i is <<(a*i + b) % (MaxCoord + 1)>>; the second
\* argument has c in place of each of the oldest n - PcaCap
BigSizes == {PcaCap + 1, PcaCap + 2, PcaCap + 100}
BigList(n, a, b) == [i \in 1..n |-> Some(<<F((a * i + b) % (MaxCoord + 1))>>)]
WithOldest(l, c) ==
  [i \in 1..Len(l) |-> IF i <= Len(l) - PcaCap THEN Some(<<F(c)>>) ELSE l[i]]

ProjVecs == {Null, Some(<<>>), Some(<<F(1)>>), Some(<<F(1), F(2)>>), Some(<<F(2), F(0), F(1)>>)}
ProjMeans == {Null, Some(<<>>), Some(<<F(1)>>), Some(<<Tenths(5), F(1)>>)}
ProjAxes == {Null, Some(<<>>), Some(<<F(1)>>), Some(<<Tenths(-5), F(1)>>)}
ProjComps ==
  {Null, Some(<<>>)}
  \cup {Some(<<a>>) : a \in ProjAxes}
  \cup {Some(<<a, b>>) : a \in ProjAxes, b \in ProjAxes}
  \cup {Some(<<a, a, b>>) : a \in ProjAxes, b \in ProjAxes}

NoProj == [kind |-> "none", z |-> <<>>]

\* the local variables of a call: addresses (0: null or not yet assigned) and numbers
NoEig == [v |-> 0, lambda |-> Zero]
StartLoc(e, base, calls, first) ==
  [embeddings |-> e, base |-> base, calls |-> calls, first |-> first,
   N |-> 0, mean |-> 0, Xc |-> 0, A |-> 0, e1 |-> NoEig, e2 |-> NoEig, deflations |-> 0,
   s1 |-> Zero, s2 |-> Zero, points2d |-> 0, rmean |-> 0, components |-> 0,
   vec |-> 0, pmean |-> 0, comps |-> 0]

\* no call in the statement-by-statement form
NoLoc == StartLoc(0, 0, 0, Null)
HeapIdle == hpc = "none" /\ heap = <<>> /\ heap0 = <<>> /\ loc = NoLoc

LibIdle ==
  /\ lpc = "idle" /\ op = "none"
  /\ argEmb = Null /\ argOld = Null /\ rnd = <<>>
  /\ argVec = Null /\ argMean = Null /\ argComps = Null
  /\ res = Sentinel /\ cen = Null /\ cenOld = Null /\ proj = NoProj /\ back = <<>>
  /\ HeapIdle

\* useState({ points2d: [], mean: [], components: [] }): the lengths of the three
\* fields, and the samples the result was computed from
EmptyBasis == [points2d |-> 0, mean |-> 0, components |-> 0, from |-> <<>>]

NoBudget == [strokes |-> 0, adds |-> 0, sources |-> 0, models |-> 0, runs |-> 0]

\* the component's state as its useState and useRef calls create it
AppIdle ==
  /\ embeddingSource = "raw" /\ selectedModel = "pretrained-cnn"
  /\ modelReady = FALSE /\ cnnEmbeddingOutName = FALSE
  /\ lastEmbedding = Null /\ samples = <<>>
  /\ pcaState = EmptyBasis /\ currentPoint = Null
  /\ pcaRunning = FALSE /\ pcaError = "" /\ modelError = ""
  /\ predictions = 0
  /\ pred = {} /\ run = {} /\ load = {}
  /\ cnnLoaded = FALSE /\ logregLoaded = FALSE
  /\ strokes = 0 /\ pcaCalls = 0 /\ budget = NoBudget

PcaInit ==
  /\ AppIdle
  /\ HeapIdle
  /\ lpc = "call"
  /\ res = Sentinel /\ cen = Null /\ cenOld = Null /\ proj = NoProj /\ back = <<>>
  /\ \/ /\ op = "runPCA2D"
        /\ argEmb \in RunInputs /\ argOld = argEmb /\ rnd \in RandPairs
        /\ argVec = Null /\ argMean = Null /\ argComps = Null
     \/ /\ op = "center"
        /\ \E n \in BigSizes, a \in 1..2, b \in Coords, c \in Coords :
             /\ argEmb = Some(BigList(n, a, b))
             /\ argOld = Some(WithOldest(BigList(n, a, b), c))
        /\ rnd = <<>>
        /\ argVec = Null /\ argMean = Null /\ argComps = Null
     \/ /\ op = "projectWithPCA"
        /\ argEmb = Null /\ argOld = Null /\ rnd = <<>>
        /\ argVec \in ProjVecs /\ argMean \in ProjMeans /\ argComps \in ProjComps

projectAll(rows, result) ==
  Arr([i \in 1..Len(rows) |->
        projectWithPCA(Some(rows[i]), Some(result.mean),
                       Some(<<Some(result.components[1]), Some(result.components[2])>>))],
      Len(rows))

\* await runPCA2D(embeddings), all of it
CallRunPCA2D ==
  /\ lpc = "call" /\ op = "runPCA2D"
  /\ res' = runPCA2D(argEmb, rnd)
  /\ cen' = centering(argEmb)
  /\ lpc' = "returned"
  /\ UNCHANGED <<op, argEmb, argOld, rnd, argVec, argMean, argComps, cenOld, proj, back>>
  /\ UNCHANGED <<heapVars, appVars>>

\* runPCA2D on more than PcaCap samples, up to the return of centerEmbeddings, for each
\* of the two arguments.  The two power iterations on a matrix of PcaCap x PcaCap
\* entries are not evaluated.
CallCentering ==
  /\ lpc = "call" /\ op = "center"
  /\ cen' = centering(argEmb)
  /\ cenOld' = centering(argOld)
  /\ lpc' = "returned"
  /\ UNCHANGED <<op, argEmb, argOld, rnd, argVec, argMean, argComps, res, proj, back>>
  /\ UNCHANGED <<heapVars, appVars>>

CallProjectWithPCA ==
  /\ lpc = "call" /\ op = "projectWithPCA"
  /\ proj' = projectWithPCA(argVec, argMean, argComps)
  /\ lpc' = "returned"
  /\ UNCHANGED <<op, argEmb, argOld, rnd, argVec, argMean, argComps, res, cen, cenOld, back>>
  /\ UNCHANGED <<heapVars, appVars>>

\* projectWithPCA(samples[i], mean, components) for every sample i the run used, with
\* the mean and the components the run returned
ProjectBack ==
  /\ lpc = "returned" /\ op = "runPCA2D"
  /\ ~res.threw /\ Len(res.points2d) > 0
  /\ back' = projectAll(rowsOf(Val(argEmb)), res)
  /\ lpc' = "projected"
  /\ UNCHANGED <<op, argEmb, argOld, rnd, argVec, argMean, argComps, res, cen, cenOld, proj>>
  /\ UNCHANGED <<heapVars, appVars>>

PcaNext == CallRunPCA2D \/ CallCentering \/ CallProjectWithPCA \/ ProjectBack

PcaSpec == PcaInit /\ [][PcaNext]_vars

(***************************************************************************)
(* HeapSpec: runPCA2D and projectWithPCA statement by statement.  The      *)
(* arrays of the program live in a heap and are reached through their      *)
(* addresses, so that an array shared by two variables is one object and   *)
(* an assignment to an element of an array changes that object.  One       *)
(* action is one call of a helper (or the statements between two calls);   *)
(* it allocates the arrays the helper allocates, with the contents the     *)
(* helper leaves in them, and writes the arrays the helper writes.         *)
(***************************************************************************)
\* the contents of the arrays the array at address a refers to
Mat(h, a) == Arr([i \in 1..Len(h[a]) |-> h[h[a][i]]], Len(h[a]))

\* the same, an absent element (address 0) being Null
ListAt(h, a) ==
  Arr([i \in 1..Len(h[a]) |-> IF h[a][i] = 0 THEN Null ELSE Some(h[h[a][i]])], Len(h[a]))

\* the addresses n + 1 .. n + k
Refs(n, k) == [i \in 1..k |-> n + i]

\* the caller's heap for the collection l: one array per element (at address i for
\* element i) and the collection at address Len(l) + 1; with shared, elements of equal
\* contents are one array (App.jsx pushes lastEmbeddingRef.current as often as Add
\* sample is clicked)
FirstEqual(l, i) == CHOOSE j \in 1..i : l[j] = l[i] /\ \A k \in 1..(j - 1) : l[k] /= l[i]
HeapOf(l, shared) ==
  Arr([i \in 1..Len(l) |-> IF IsNull(l[i]) THEN <<>> ELSE Val(l[i])], Len(l))
  \o << [i \in 1..Len(l) |->
          IF IsNull(l[i]) THEN 0 ELSE IF shared THEN FirstEqual(l, i) ELSE i] >>

\* the caller's heap for projectWithPCA's arguments: the vector at 1, the mean at 2,
\* the entries of components at 3..5 and components at 6
OrEmpty(o) == IF IsNull(o) THEN <<>> ELSE Val(o)
ProjHeapOf(v, m, c) ==
  << OrEmpty(v), OrEmpty(m),
     IF Len(OrEmpty(c)) >= 1 THEN OrEmpty(OrEmpty(c)[1]) ELSE <<>>,
     IF Len(OrEmpty(c)) >= 2 THEN OrEmpty(OrEmpty(c)[2]) ELSE <<>>,
     IF Len(OrEmpty(c)) >= 3 THEN OrEmpty(OrEmpty(c)[3]) ELSE <<>>,
     [k \in 1..Len(OrEmpty(c)) |-> IF IsNull(OrEmpty(c)[k]) THEN 0 ELSE 2 + k] >>

\* the scenario of three vectors of four coordinates, and three unit vectors
Scenario ==
  << Some(<<F(1), F(0), F(0), F(0)>>), Some(<<F(0), F(1), F(0), F(0)>>),
     Some(<<F(2), F(0), F(0), F(0)>>) >>
Units3 ==
  << Some(<<F(1), F(0), F(0)>>), Some(<<F(0), F(1), F(0)>>), Some(<<F(0), F(0), F(1)>>) >>

\* two vectors of one finite coordinate, 2^70 (about 1.2e21) and 0: the square of the
\* centered coordinate, 2^138, is no Float32
Huge == FNorm(1, 70)
HugeList == << Some(<<Huge>>), Some(<<Zero>>) >>

\* two more draws of Math.random() - 0.5: one more of differing values, and the same
\* value at every call
RandC == <<Tenths(-3), Tenths(-1), Tenths(0), Tenths(2)>>
RandEq == <<Tenths(3), Tenths(3), Tenths(3), Tenths(3)>>
HeapRands == RandPairs \cup {<<RandC, RandA>>, <<RandEq, RandB>>}

HeapInputs ==
  RunInputs \cup {Some(Scenario), Some(Units3), Some(HugeList)}
            \cup {Some(BigList(n, 1, 0)) : n \in BigSizes}

HeapInit ==
  /\ AppIdle
  /\ lpc = "call" /\ hpc = "call"
  /\ res = Sentinel /\ cen = Null /\ cenOld = Null /\ proj = NoProj /\ back = <<>>
  /\ argOld = Null
  /\ \/ /\ op = "runPCA2D"
        /\ argEmb \in HeapInputs /\ rnd \in HeapRands
        /\ argVec = Null /\ argMean = Null /\ argComps = Null
        /\ \E shared \in BOOLEAN :
             heap = IF IsNull(argEmb) THEN <<>>
                    ELSE HeapOf(Val(argEmb), shared /\ Len(Val(argEmb)) <= MaxN)
        /\ loc = StartLoc(Len(heap), Len(heap), 1, Null)
     \/ /\ op = "projectWithPCA"
        /\ argEmb = Null /\ rnd = <<>>
        /\ argVec \in ProjVecs /\ argMean \in ProjMeans /\ argComps \in ProjComps
        /\ heap = ProjHeapOf(argVec, argMean, argComps)
        /\ loc = [StartLoc(0, 6, 1, Null) EXCEPT
                    !.vec = IF IsNull(argVec) THEN 0 ELSE 1,
                    !.pmean = IF IsNull(argMean) THEN 0 ELSE 2,
                    !.comps = IF IsNull(argComps) THEN 0 ELSE 6]
  /\ heap0 = heap

heapFrame ==
  UNCHANGED <<lpc, op, argEmb, argOld, argVec, argMean, argComps, cen, cenOld, back, heap0,
              appVars>>

\* runPCA2D, lines 136-146: the guard, embeddings[0].length, the slice
Enter ==
  /\ hpc = "call" /\ op = "runPCA2D"
  /\ IF loc.embeddings = 0 \/ Len(heap[loc.embeddings]) < 2
     THEN /\ heap' = heap \o << <<>>, <<>>, <<>> >>
          /\ loc' = [loc EXCEPT !.points2d = Len(heap) + 1, !.rmean = Len(heap) + 2,
                                !.components = Len(heap) + 3]
          /\ res' = Sentinel
          /\ hpc' = "returned"
     ELSE IF heap[loc.embeddings][1] = 0
     THEN /\ hpc' = "thrown" /\ res' = Thrown
          /\ UNCHANGED <<heap, loc>>
     ELSE IF Len(heap[loc.embeddings]) > PcaCap
     THEN /\ heap' = Append(heap, window(heap[loc.embeddings]))
          /\ loc' = [loc EXCEPT !.embeddings = Len(heap) + 1]
          /\ hpc' = "center"
          /\ UNCHANGED res
     ELSE /\ hpc' = "center"
          /\ UNCHANGED <<heap, loc, res>>
  /\ UNCHANGED <<rnd, proj>>
  /\ heapFrame

\* the heap after the rows of the matrix at address a have been assigned the rows of M
assignRows(h, a, M) ==
  Arr([x \in 1..Len(h) |->
        IF \E i \in 1..Len(h[a]) : h[a][i] = x
        THEN M[CHOOSE i \in 1..Len(h[a]) : h[a][i] = x]
        ELSE h[x]],
      Len(h))

\* centerEmbeddings with x[d] -= mean[d] on the caller's vectors before line 84
centerInPlace(h, c) ==
  assignRows(h, loc.embeddings, c.Xc)
    \o <<c.mean>> \o c.Xc \o <<Refs(Len(h) + 1, Len(c.Xc))>> \o <<c.mean>>

\* the arrays of centerEmbeddings: mean (a Float32Array), one Float32Array per row,
\* Xc, Array.from(mean)
centerAlloc(h, c) ==
  h \o <<c.mean>> \o c.Xc \o <<Refs(Len(h) + 1, Len(c.Xc))>> \o <<c.mean>>

\* line 148: centerEmbeddings(embeddings)
Center ==
  /\ hpc = "center"
  /\ IF runThrows(ListAt(heap, loc.embeddings))
     THEN /\ hpc' = "thrown" /\ res' = Thrown
          /\ UNCHANGED <<heap, loc>>
     ELSE /\ heap' = centerAlloc(heap,
                       centerEmbeddings(rowsOf(ListAt(heap, loc.embeddings))))
          /\ loc' = [loc EXCEPT !.N = Len(heap[loc.embeddings]),
                                !.Xc = Len(heap) + Len(heap[loc.embeddings]) + 2,
                                !.mean = Len(heap) + Len(heap[loc.embeddings]) + 3]
          /\ hpc' = "gram"
          /\ UNCHANGED res
  /\ UNCHANGED <<rnd, proj>>
  /\ heapFrame

\* the arrays of gramMatrix: one Float32Array per row of G, G, Array.from of each row,
\* A
gramAlloc(h, G) ==
  h \o G \o <<Refs(Len(h), Len(G))>> \o G \o <<Refs(Len(h) + Len(G) + 1, Len(G))>>

\* line 149: gramMatrix(Xc).  The Gram matrix and the power iterations are evaluated
\* for up to MaxN rows.
Gram ==
  /\ hpc = "gram" /\ loc.N <= MaxN
  /\ heap' = gramAlloc(heap, gramMatrix(Mat(heap, loc.Xc)))
  /\ loc' = [loc EXCEPT !.A = Len(heap) + 2 * loc.N + 2]
  /\ hpc' = "top1"
  /\ UNCHANGED <<rnd, res, proj>>
  /\ heapFrame

\* the arrays powerIterationTop1 leaves: v (the Float32Array of its last iteration,
\* normalized in place) and Array.from(v)
topAlloc(h, e) == h \o <<e.v, e.v>>

\* line 152: powerIterationTop1(A, 90)
Top1 ==
  /\ hpc = "top1"
  /\ \E e \in {powerIterationTop1(Mat(heap, loc.A), Iters, rnd[1])} :
       /\ heap' = topAlloc(heap, e)
       /\ loc' = [loc EXCEPT !.e1 = [v |-> Len(heap) + 2, lambda |-> e.lambda]]
  /\ hpc' = "deflate"
  /\ UNCHANGED <<rnd, res, proj>>
  /\ heapFrame

\* line 153: deflate(A, e1.v, e1.lambda) assigns A[i][j] in place
Deflate ==
  /\ hpc = "deflate"
  /\ heap' = assignRows(heap, loc.A,
                        deflate(Mat(heap, loc.A), heap[loc.e1.v], loc.e1.lambda))
  /\ loc' = [loc EXCEPT !.deflations = @ + 1]
  /\ hpc' = "top2"
  /\ UNCHANGED <<rnd, res, proj>>
  /\ heapFrame

\* line 156: powerIterationTop1(A, 90) on the deflated A
Top2 ==
  /\ hpc = "top2"
  /\ \E e \in {powerIterationTop1(Mat(heap, loc.A), Iters, rnd[2])} :
       /\ heap' = topAlloc(heap, e)
       /\ loc' = [loc EXCEPT !.e2 = [v |-> Len(heap) + 2, lambda |-> e.lambda]]
  /\ hpc' = "scores"
  /\ UNCHANGED <<rnd, res, proj>>
  /\ heapFrame

\* the arrays of lines 167-178: one pair per point, points2d, the two Float32Arrays of
\* computeComponents, Array.from of each, and the array of the two
scoresAlloc(h, r) ==
  h \o r.points2d \o <<Refs(Len(h), Len(r.points2d))>>
    \o r.components \o r.components \o <<Refs(Len(h) + Len(r.points2d) + 3, 2)>>

\* lines 158-178: the clamps, the square roots, the points, computeComponents, return
Scores ==
  /\ hpc = "scores"
  /\ \E s \in {<<singularValue(loc.e1.lambda), singularValue(loc.e2.lambda)>>} :
       \E r \in {scoresAndComponents([mean |-> heap[loc.mean], Xc |-> Mat(heap, loc.Xc)],
                                     [v |-> heap[loc.e1.v], lambda |-> loc.e1.lambda],
                                     [v |-> heap[loc.e2.v], lambda |-> loc.e2.lambda],
                                     s[1], s[2])} :
         /\ heap' = scoresAlloc(heap, r)
         /\ loc' = [loc EXCEPT !.s1 = s[1], !.s2 = s[2],
                               !.points2d = Len(heap) + loc.N + 1,
                               !.rmean = loc.mean,
                               !.components = Len(heap) + loc.N + 6]
         /\ res' = r
  /\ hpc' = "returned"
  /\ UNCHANGED <<rnd, proj>>
  /\ heapFrame

\* what the addresses of a returned result hold
ResultAt(h, l) ==
  [threw |-> FALSE, points2d |-> Mat(h, l.points2d), mean |-> h[l.rmean],
   components |-> Mat(h, l.components)]

\* a second call of runPCA2D with the same collection, the first having returned
\* (runPCA2D has no await: two calls do not interleave); the other values of
\* Math.random
CallAgain ==
  /\ hpc = "returned" /\ op = "runPCA2D" /\ loc.calls = 1
  /\ loc' = StartLoc(Len(heap0), Len(heap), 2,
                     Some([points2d |-> loc.points2d, rmean |-> loc.rmean,
                           components |-> loc.components, res |-> res]))
  /\ rnd' = <<rnd[2], rnd[1]>>
  /\ hpc' = "call"
  /\ UNCHANGED <<heap, res, proj>>
  /\ heapFrame

\* projectWithPCA, lines 181-195: no array is assigned; the pair returned is new
Project ==
  /\ hpc = "call" /\ op = "projectWithPCA"
  /\ proj' = projectWithPCA(IF loc.vec = 0 THEN Null ELSE Some(heap[loc.vec]),
                            IF loc.pmean = 0 THEN Null ELSE Some(heap[loc.pmean]),
                            IF loc.comps = 0 THEN Null ELSE Some(ListAt(heap, loc.comps)))
  /\ heap' = IF proj'.kind = "pair" THEN Append(heap, proj'.z) ELSE heap
  /\ hpc' = IF proj'.kind = "throw" THEN "thrown" ELSE "returned"
  /\ UNCHANGED <<rnd, res, loc>>
  /\ heapFrame

HeapNext ==
  \/ Enter \/ Center \/ Gram \/ Top1 \/ Deflate \/ Top2 \/ Scores \/ CallAgain \/ Project

HeapSpec == HeapInit /\ [][HeapNext]_vars

(***************************************************************************)
(* src/App.jsx: the App component.  A handler's synchronous part is one    *)
(* action; an async handler continues in one action per await, with the    *)
(* values its closure captured when it started.  A state change and the    *)
(* effect it triggers are one action.                                      *)
(***************************************************************************)
RawDim == 784       \* preprocessCanvas: new Float32Array(784)
CnnDim == 128       \* the width of the CNN's penultimate layer: the model asset's, any
                    \* width other than RawDim
SampleCap == 300

MaxStrokes == 2        \* strokes drawn
MaxAdds == 2           \* Add sample clicks
MaxSourceChanges == 2  \* changes of the embedding source
MaxModelChanges == 2   \* changes of the model
MaxRuns == 2           \* Run PCA clicks
MaxInFlight == 2       \* stroke-end predictions suspended at an await

Sources == {"raw", "cnn-penultimate"}
Models == {"pretrained-cnn", "logreg"}

\* a feature vector: its length, and the stroke it was computed from
Emb(len, k) == [len |-> len, stroke |-> k]

\* what runPCA2D returns to runPca: one point per sample of the window, the mean of the
\* first sample's length, two components
runPCA2DShape(embs) ==
  IF Len(embs) < 2 THEN EmptyBasis
  ELSE [points2d |-> Len(window(embs)), mean |-> window(embs)[1].len,
        components |-> 2, from |-> window(embs)]

\* what projectWithPCA returns for a present vector and mean: null, or the point of
\* emb in the basis
projectWithPCAShape(emb, basis) ==
  IF basis.components /= 2 THEN Null ELSE Some([emb |-> emb, from |-> basis.from])

\* lines 260-270 without emb.length === pcaState.mean.length
pointAfterPredictAnyLength(emb, basis) ==
  IF ~IsNull(emb) /\ basis.components = 2 /\ basis.mean /= 0
  THEN projectWithPCAShape(Val(emb), basis)
  ELSE Null

\* predict, lines 260-270
pointAfterPredict(emb, basis) ==
  IF /\ ~IsNull(emb) /\ basis.components = 2 /\ basis.mean /= 0
     /\ Val(emb).len = basis.mean
  THEN projectWithPCAShape(Val(emb), basis)
  ELSE Null

\* runPca, lines 306-311
pointAfterRun(emb, basis) ==
  IF ~IsNull(emb) /\ Val(emb).len = basis.mean
  THEN projectWithPCAShape(Val(emb), basis)
  ELSE Null

\* line 282 with > in place of >=
evictAbove(prev) == IF Len(prev) > SampleCap THEN Tail(prev) ELSE prev

\* addSample, line 282
evict(prev) == IF Len(prev) >= SampleCap THEN Tail(prev) ELSE prev

\* addSample, lines 281-285
pushSample(prev, emb) == Append(evict(prev), emb)

\* lines 293-294 without the samples.some(...)
mixedSizesDimOnly(list) == list[1].len = 0

\* runPca, lines 293-294: !dim || samples.some(...)
mixedSizes(list) ==
  \/ list[1].len = 0
  \/ \E i \in 1..Len(list) : list[i].len /= list[1].len

\* ---- predict, up to its first await: DoodleCanvas calls it at the end of a stroke
\* (onStrokeEnd, line 336), the canvas being there (line 197)
predict ==
  /\ budget.strokes > 0 /\ Cardinality(pred) < MaxInFlight
  /\ strokes' = strokes + 1
  /\ budget' = [budget EXCEPT !.strokes = @ - 1]
  /\ IF ~modelReady
     THEN UNCHANGED <<lastEmbedding, pred>>
     ELSE /\ lastEmbedding' = Some(Emb(RawDim, strokes + 1))
          /\ pred' = pred \cup {[stroke |-> strokes + 1, pc |-> "probs",
                                 selectedModel |-> selectedModel,
                                 embeddingSource |-> embeddingSource,
                                 cnnEmbeddingOutName |-> cnnEmbeddingOutName,
                                 pcaState |-> pcaState]}
  /\ UNCHANGED <<embeddingSource, selectedModel, modelReady, cnnEmbeddingOutName, samples,
                 pcaState, currentPoint, pcaRunning, pcaError, modelError, predictions,
                 run, load, cnnLoaded, logregLoaded, pcaCalls>>
  /\ UNCHANGED libVars

\* the probabilities have arrived (line 205); extractCnnEmbedding is called if the
\* source is the CNN's layer, and the prediction ends otherwise
predictAfterProbs ==
  \E p \in pred :
    /\ p.pc = "probs"
    /\ IF /\ p.embeddingSource = "cnn-penultimate" /\ p.selectedModel = "pretrained-cnn"
          /\ cnnLoaded /\ p.cnnEmbeddingOutName
       THEN /\ pred' = (pred \ {p}) \cup {[p EXCEPT !.pc = "emb"]}
            /\ UNCHANGED <<predictions, currentPoint>>
       ELSE /\ pred' = pred \ {p}
            /\ predictions' = p.stroke
            /\ currentPoint' = pointAfterPredict(lastEmbedding, p.pcaState)
    /\ UNCHANGED <<embeddingSource, selectedModel, modelReady, cnnEmbeddingOutName,
                   lastEmbedding, samples, pcaState, pcaRunning, pcaError, modelError,
                   run, load, cnnLoaded, logregLoaded, strokes, pcaCalls, budget>>
    /\ UNCHANGED libVars

\* the CNN embedding has arrived (line 250)
predictAfterEmb ==
  \E p \in pred :
    /\ p.pc = "emb"
    /\ lastEmbedding' = Some(Emb(CnnDim, p.stroke))
    /\ pred' = pred \ {p}
    /\ predictions' = p.stroke
    /\ currentPoint' = pointAfterPredict(Some(Emb(CnnDim, p.stroke)), p.pcaState)
    /\ UNCHANGED <<embeddingSource, selectedModel, modelReady, cnnEmbeddingOutName,
                   samples, pcaState, pcaRunning, pcaError, modelError,
                   run, load, cnnLoaded, logregLoaded, strokes, pcaCalls, budget>>
    /\ UNCHANGED libVars

\* the model's inference rejects at either await (lines 271-274)
predictFails ==
  \E p \in pred :
    /\ pred' = pred \ {p}
    /\ modelError' = "predict"
    /\ UNCHANGED <<embeddingSource, selectedModel, modelReady, cnnEmbeddingOutName,
                   lastEmbedding, samples, pcaState, currentPoint, pcaRunning, pcaError,
                   predictions, run, load, cnnLoaded, logregLoaded, strokes, pcaCalls,
                   budget>>
    /\ UNCHANGED libVars

\* ---- the Add sample button
addSample ==
  /\ budget.adds > 0
  /\ budget' = [budget EXCEPT !.adds = @ - 1]
  /\ samples' = IF IsNull(lastEmbedding) THEN samples
                ELSE pushSample(samples, Val(lastEmbedding))
  /\ UNCHANGED <<embeddingSource, selectedModel, modelReady, cnnEmbeddingOutName,
                 lastEmbedding, pcaState, currentPoint, pcaRunning, pcaError, modelError,
                 predictions, pred, run, load, cnnLoaded, logregLoaded, strokes, pcaCalls>>
  /\ UNCHANGED libVars

\* ---- the embedding source select (its second option is disabled without the CNN
\* and its embedding node), and the effect of lines 73-79
setEmbeddingSource(v) ==
  /\ budget.sources > 0
  /\ v /= embeddingSource
  /\ v = "cnn-penultimate" => (selectedModel = "pretrained-cnn" /\ cnnEmbeddingOutName)
  /\ budget' = [budget EXCEPT !.sources = @ - 1]
  /\ embeddingSource' = v
  /\ samples' = <<>>
  /\ pcaState' = EmptyBasis
  /\ currentPoint' = Null
  /\ pcaError' = ""
  /\ UNCHANGED <<selectedModel, modelReady, cnnEmbeddingOutName, lastEmbedding, pcaRunning,
                 modelError, predictions, pred, run, load, cnnLoaded, logregLoaded,
                 strokes, pcaCalls>>
  /\ UNCHANGED libVars

\* ---- the model select, and the effect of lines 81-168: the earlier loads are
\* cancelled and a load starts, up to its await of tf.ready()
setSelectedModel(m) ==
  /\ budget.models > 0
  /\ m /= selectedModel
  /\ budget' = [budget EXCEPT !.models = @ - 1]
  /\ selectedModel' = m
  /\ load' = {[l EXCEPT !.cancelled = TRUE] : l \in load}
             \cup {[id |-> budget.models, model |-> m, pc |-> "tfready", cancelled |-> FALSE]}
  /\ modelReady' = FALSE
  /\ predictions' = 0
  /\ modelError' = ""
  /\ cnnEmbeddingOutName' = FALSE
  /\ UNCHANGED <<embeddingSource, lastEmbedding, samples, pcaState, currentPoint,
                 pcaRunning, pcaError, pred, run, cnnLoaded, logregLoaded, strokes,
                 pcaCalls>>
  /\ UNCHANGED libVars

\* tf.ready() has resolved: the load asks for its model's asset (lines 94-100, 114-118)
loadReady ==
  \E l \in load :
    /\ l.pc = "tfready"
    /\ load' = (load \ {l}) \cup {[l EXCEPT !.pc = "asset"]}
    /\ UNCHANGED <<embeddingSource, selectedModel, modelReady, cnnEmbeddingOutName,
                   lastEmbedding, samples, pcaState, currentPoint, pcaRunning, pcaError,
                   modelError, predictions, pred, run, cnnLoaded, logregLoaded, strokes,
                   pcaCalls, budget>>
    /\ UNCHANGED libVars

\* tf.loadGraphModel has resolved (lines 100-111); resolveEmbeddingOutputName finds the
\* embedding node or does not
loadCnnDone ==
  \E l \in load :
    /\ l.model = "pretrained-cnn" /\ l.pc = "asset"
    /\ load' = load \ {l}
    /\ IF l.cancelled
       THEN UNCHANGED <<cnnLoaded, cnnEmbeddingOutName, modelReady>>
       ELSE /\ cnnLoaded' = TRUE
            /\ cnnEmbeddingOutName' \in BOOLEAN
            /\ modelReady' = TRUE
    /\ UNCHANGED <<embeddingSource, selectedModel, lastEmbedding, samples, pcaState,
                   currentPoint, pcaRunning, pcaError, modelError, predictions, pred, run,
                   logregLoaded, strokes, pcaCalls, budget>>
    /\ UNCHANGED libVars

\* fetch has resolved with an ok response (lines 118-121)
loadLogregFetched ==
  \E l \in load :
    /\ l.model = "logreg" /\ l.pc = "asset"
    /\ load' = (load \ {l}) \cup {[l EXCEPT !.pc = "text"]}
    /\ UNCHANGED <<embeddingSource, selectedModel, modelReady, cnnEmbeddingOutName,
                   lastEmbedding, samples, pcaState, currentPoint, pcaRunning, pcaError,
                   modelError, predictions, pred, run, cnnLoaded, logregLoaded, strokes,
                   pcaCalls, budget>>
    /\ UNCHANGED libVars

\* res.text() has resolved with JSON (lines 121-156): no test of cancelled
loadLogregDone ==
  \E l \in load :
    /\ l.model = "logreg" /\ l.pc = "text"
    /\ load' = load \ {l}
    /\ logregLoaded' = TRUE
    /\ modelReady' = TRUE
    /\ UNCHANGED <<embeddingSource, selectedModel, cnnEmbeddingOutName, lastEmbedding,
                   samples, pcaState, currentPoint, pcaRunning, pcaError, modelError,
                   predictions, pred, run, cnnLoaded, strokes, pcaCalls, budget>>
    /\ UNCHANGED libVars

\* an await of the load rejects, or the response is not ok or not JSON (lines 158-161)
loadFails ==
  \E l \in load :
    /\ load' = load \ {l}
    /\ modelError' = IF l.cancelled THEN modelError ELSE "load"
    /\ UNCHANGED <<embeddingSource, selectedModel, modelReady, cnnEmbeddingOutName,
                   lastEmbedding, samples, pcaState, currentPoint, pcaRunning, pcaError,
                   predictions, pred, run, cnnLoaded, logregLoaded, strokes, pcaCalls,
                   budget>>
    /\ UNCHANGED libVars

\* line 345 without pcaRunning
runPcaDisabledBySamples == Len(samples) < 2

\* the Run PCA button, line 345: disabled={samples.length < 2 || pcaRunning}
runPcaDisabled == Len(samples) < 2 \/ pcaRunning

\* line 301 with the store as it is when the timeout fires
storeEmbs(r) == samples

\* line 301: samples.map((s) => s.embedding), samples being the handler's closure value
capturedEmbs(r) == r.samples

\* a finally block that leaves the flag as it is
flagLeftAlone == pcaRunning

\* lines 315-317: finally { setPcaRunning(false) }
flagInFinally == FALSE

\* ---- the Run PCA button, up to the await of the timeout (lines 289-299); the early
\* return and the throw of line 295 go through the finally block
runPca ==
  /\ budget.runs > 0
  /\ ~runPcaDisabled
  /\ budget' = [budget EXCEPT !.runs = @ - 1]
  /\ IF Len(samples) < 2
     THEN pcaError' = "" /\ pcaRunning' = flagInFinally /\ UNCHANGED run
     ELSE IF mixedSizes(samples)
     THEN pcaError' = "mixed" /\ pcaRunning' = flagInFinally /\ UNCHANGED run
     ELSE /\ pcaError' = ""
          /\ pcaRunning' = TRUE
          /\ run' = run \cup {[pc |-> "tick", samples |-> samples]}
  /\ UNCHANGED <<embeddingSource, selectedModel, modelReady, cnnEmbeddingOutName,
                 lastEmbedding, samples, pcaState, currentPoint, modelError, predictions,
                 pred, load, cnnLoaded, logregLoaded, strokes, pcaCalls>>
  /\ UNCHANGED libVars

\* the timeout has fired: runPCA2D is called on the captured samples (lines 299-302)
runPcaTick ==
  \E r \in run :
    /\ r.pc = "tick"
    /\ run' = (run \ {r}) \cup {[pc |-> "pca", samples |-> capturedEmbs(r)]}
    /\ pcaCalls' = pcaCalls + 1
    /\ UNCHANGED <<embeddingSource, selectedModel, modelReady, cnnEmbeddingOutName,
                   lastEmbedding, samples, pcaState, currentPoint, pcaRunning, pcaError,
                   modelError, predictions, pred, load, cnnLoaded, logregLoaded, strokes,
                   budget>>
    /\ UNCHANGED libVars

\* runPCA2D has returned (lines 302-317)
runPcaDone ==
  \E r \in run :
    /\ r.pc = "pca"
    /\ run' = run \ {r}
    /\ pcaState' = runPCA2DShape(r.samples)
    /\ currentPoint' = pointAfterRun(lastEmbedding, runPCA2DShape(r.samples))
    /\ pcaRunning' = flagInFinally
    /\ UNCHANGED <<embeddingSource, selectedModel, modelReady, cnnEmbeddingOutName,
                   lastEmbedding, samples, pcaError, modelError, predictions, pred, load,
                   cnnLoaded, logregLoaded, strokes, pcaCalls, budget>>
    /\ UNCHANGED libVars

\* the promise of runPCA2D rejects, an allocation of the pipeline failing (lines
\* 312-317)
runPcaFails ==
  \E r \in run :
    /\ r.pc = "pca"
    /\ run' = run \ {r}
    /\ pcaError' = "pca"
    /\ pcaRunning' = flagInFinally
    /\ UNCHANGED <<embeddingSource, selectedModel, modelReady, cnnEmbeddingOutName,
                   lastEmbedding, samples, pcaState, currentPoint, modelError, predictions,
                   pred, load, cnnLoaded, logregLoaded, strokes, pcaCalls, budget>>
    /\ UNCHANGED libVars

\* the mounted component: the first load of the model has started
Init ==
  /\ LibIdle
  /\ embeddingSource = "raw" /\ selectedModel = "pretrained-cnn"
  /\ modelReady = FALSE /\ cnnEmbeddingOutName = FALSE
  /\ lastEmbedding = Null /\ samples = <<>>
  /\ pcaState = EmptyBasis /\ currentPoint = Null
  /\ pcaRunning = FALSE /\ pcaError = "" /\ modelError = ""
  /\ predictions = 0
  /\ pred = {} /\ run = {}
  /\ load = {[id |-> 0, model |-> "pretrained-cnn", pc |-> "tfready", cancelled |-> FALSE]}
  /\ cnnLoaded = FALSE /\ logregLoaded = FALSE
  /\ strokes = 0 /\ pcaCalls = 0
  /\ budget = [strokes |-> MaxStrokes, adds |-> MaxAdds, sources |-> MaxSourceChanges,
               models |-> MaxModelChanges, runs |-> MaxRuns]

Next ==
  \/ predict \/ predictAfterProbs \/ predictAfterEmb \/ predictFails
  \/ addSample
  \/ \E v \in Sources : setEmbeddingSource(v)
  \/ \E m \in Models : setSelectedModel(m)
  \/ loadReady \/ loadCnnDone \/ loadLogregFetched \/ loadLogregDone \/ loadFails
  \/ runPca \/ runPcaTick \/ runPcaDone \/ runPcaFails

Spec == Init /\ [][Next]_vars

(***************************************************************************)
(* StoreSpec: the store at its cap.                                        *)
(***************************************************************************)
StoreStrokes == 2
StoreAdds == 3
StoreSourceChanges == 1

\* the app with the CNN loaded and no stroke drawn (k = 0), or after k strokes, the raw source, each stroke's
\* prediction finished and its vector added to the store
Filled(k) ==
  /\ LibIdle
  /\ embeddingSource = "raw" /\ selectedModel = "pretrained-cnn"
  /\ modelReady = TRUE /\ cnnEmbeddingOutName \in BOOLEAN
  /\ lastEmbedding = (IF k = 0 THEN Null ELSE Some(Emb(RawDim, k)))
  /\ samples = [i \in 1..k |-> Emb(RawDim, i)]
  /\ pcaState = EmptyBasis /\ currentPoint = Null
  /\ pcaRunning = FALSE /\ pcaError = "" /\ modelError = ""
  /\ predictions = k
  /\ pred = {} /\ run = {} /\ load = {}
  /\ cnnLoaded = TRUE /\ logregLoaded = FALSE
  /\ strokes = k /\ pcaCalls = 0
  /\ budget = [strokes |-> StoreStrokes, adds |-> StoreAdds,
               sources |-> StoreSourceChanges, models |-> 0, runs |-> 0]

StoreInit == Filled(0) \/ Filled(SampleCap - 1) \/ Filled(SampleCap)

StoreNext ==
  \/ predict \/ predictAfterProbs \/ predictAfterEmb \/ predictFails
  \/ addSample
  \/ \E v \in Sources : setEmbeddingSource(v)

StoreSpec == StoreInit /\ [][StoreNext]_vars

(***************************************************************************)
(* The claims about pca.js, under PcaSpec.                                 *)
(***************************************************************************)
Returned == lpc \in {"returned", "projected"}
RanPCA == Returned /\ op = "runPCA2D"
Projected == Returned /\ op = "projectWithPCA"

\* the argument of runPCA2D is N >= 2 present vectors of one length D
UniformArg ==
  /\ ~IsNull(argEmb)
  /\ Len(Val(argEmb)) >= 2
  /\ \A i \in 1..Len(Val(argEmb)) :
       /\ ~IsNull(Val(argEmb)[i])
       /\ Len(Val(Val(argEmb)[i])) = Len(Val(Val(argEmb)[1]))
ArgN == Len(Val(argEmb))
ArgD == Len(Val(Val(argEmb)[1]))
Min(a, b) == IF a < b THEN a ELSE b

\* C1: runPCA2D called with an absent collection, an empty collection or a collection
\* of one vector returns the sentinel {points2d: [], mean: [], components: []} and does
\* not throw, and centerEmbeddings (so the Gram matrix and the power iterations after
\* it) is not reached.
C1_SentinelBelowTwo ==
  (RanPCA /\ (IsNull(argEmb) \/ Len(Val(argEmb)) < 2))
    => /\ ~res.threw
       /\ res.points2d = <<>> /\ res.mean = <<>> /\ res.components = <<>>
       /\ IsNull(cen)

C1_Witness ==
  /\ RanPCA /\ ~IsNull(argEmb) /\ Len(Val(argEmb)) = 1 /\ ~IsNull(Val(argEmb)[1])
  /\ res = Sentinel /\ IsNull(cen)

C4_OldestIgnored ==
  (Returned /\ op = "center")
    => /\ ~IsNull(cen) /\ ~IsNull(cenOld)
       /\ Val(cen).n = PcaCap
       /\ Val(cen).mean = Val(cenOld).mean
       /\ rowsOf(Val(argEmb)) = rowsOf(Val(argOld))
       /\ rowsOf(Val(argEmb)) =
            [i \in 1..PcaCap |-> Val(Val(argEmb)[Len(Val(argEmb)) - PcaCap + i])]

C4_Witness ==
  /\ Returned /\ op = "center"
  /\ Len(Val(argEmb)) = PcaCap + 100
  /\ Cardinality({i \in 1..100 : Val(argEmb)[i] /= Val(argOld)[i]}) > 50
  /\ Val(cen).mean = Val(cenOld).mean

\* the coordinate i of a, zero when a has no coordinate i
Pad(a, i) == IF i \in DOMAIN a THEN a[i] ELSE Zero

\* the sum over d = 1..n of (v[d] - mean[d]) * comp[d], missing coordinates zero
RECURSIVE ProjSum(_, _, _, _)
ProjSum(v, mean, comp, n) ==
  IF n = 0 THEN Zero
  ELSE FAdd(ProjSum(v, mean, comp, n - 1), FMul(FSub(v[n], Pad(mean, n)), Pad(comp, n)))

\* C5: for present arguments with exactly two (present) components, projectWithPCA
\* returns [z0, z1] with z_k the sum over every coordinate d of the vector of
\* (vector[d] - mean[d]) * components[k][d], a coordinate missing from the mean or
\* from components[k] counting as zero; it does not throw.
C5_ProjectionFormula ==
  (/\ Projected
   /\ ~IsNull(argVec) /\ ~IsNull(argMean) /\ ~IsNull(argComps)
   /\ Len(Val(argComps)) = 2
   /\ \A k \in 1..2 : ~IsNull(Val(argComps)[k]))
    => /\ proj.kind = "pair"
       /\ \A k \in 1..2 :
            proj.z[k] = ProjSum(Val(argVec), Val(argMean), Val(Val(argComps)[k]),
                                Len(Val(argVec)))

C5_Witness ==
  /\ Projected /\ proj.kind = "pair"
  /\ Len(Val(argVec)) = 3 /\ Len(Val(argMean)) = 1
  /\ Len(Val(Val(argComps)[1])) = 2 /\ Len(Val(Val(argComps)[2])) = 1
  /\ proj.z[1] /= Zero /\ proj.z[2] /= Zero

\* the tolerance of the round trip: a hundredth, for coordinates of at most MaxCoord
\* and roundings of 2^-MantBits
Tol == FDiv(FromInt(1), FromInt(100))
Close(a, b) == FLeq(FAbs(FSub(a, b)), Tol)

\* C6, as stated: for every sample i of a run on N >= 2 vectors of one dimension,
\* projectWithPCA(samples[i], mean, components) with the run's mean and components is
\* points2d[i] on both axes, up to the tolerance and the sign of an axis.
C6_RoundTrip ==
  (lpc = "projected" /\ UniformArg)
    => \A i \in 1..Len(back) :
         /\ back[i].kind = "pair"
         /\ \A k \in 1..2 :
              \/ Close(back[i].z[k], res.points2d[i][k])
              \/ Close(back[i].z[k], FNeg(res.points2d[i][k]))

\* C7, as stated: no call of runPCA2D or projectWithPCA throws.
C7_NoCallThrows ==
  Returned => (~res.threw /\ proj.kind /= "throw")

(***************************************************************************)
(* The claims about the App component, under Spec and StoreSpec.           *)
(***************************************************************************)
SameSizes(list) == \A i, j \in 1..Len(list) : list[i].len = list[j].len

\* C8, as stated: in every reachable state all the vectors of the sample store have
\* the same length.
C8_UniformStore == SameSizes(samples)

\* a step of runPca (the Run PCA button)
RunPcaStep == budget'.runs /= budget.runs

\* C9: samples of differing length never reach runPCA2D: no Run PCA in flight holds
\* such samples, and a Run PCA on such samples sets pcaError, calls no runPCA2D,
\* leaves pcaState and currentPoint as they are and ends with pcaRunning false.
C9_MixedRejected ==
  /\ [](\A r \in run : SameSizes(r.samples))
  /\ [][(RunPcaStep /\ ~SameSizes(samples))
          => /\ pcaError' = "mixed"
             /\ pcaCalls' = pcaCalls /\ run' = run
             /\ pcaState' = pcaState /\ currentPoint' = currentPoint
             /\ pcaRunning' = FALSE]_vars

C9_Witness ==
  /\ Len(samples) >= 2 /\ ~SameSizes(samples)
  /\ pcaError = "mixed" /\ ~pcaRunning /\ run = {} /\ pcaCalls = 0
  /\ budget.runs < MaxRuns

\* a step of addSample (the Add sample button)
AddStep == budget'.adds /= budget.adds

\* C10: the store never holds more than SampleCap vectors; an add at the cap drops
\* the oldest vector and puts the new one last, the others keeping their order; an add
\* below the cap puts the new one last; an add with no last embedding changes nothing.
C10_BoundedFifo ==
  /\ [](Len(samples) <= SampleCap)
  /\ [][AddStep =>
          IF IsNull(lastEmbedding) THEN samples' = samples
          ELSE IF Len(samples) = SampleCap
          THEN /\ Len(samples') = SampleCap
               /\ \A i \in 1..(SampleCap - 1) : samples'[i] = samples[i + 1]
               /\ samples'[SampleCap] = Val(lastEmbedding)
          ELSE /\ Len(samples') = Len(samples) + 1
               /\ \A i \in 1..Len(samples) : samples'[i] = samples[i]
               /\ samples'[Len(samples) + 1] = Val(lastEmbedding)]_vars

C10_Witness ==
  /\ Len(samples) = SampleCap
  /\ samples[1].stroke = 2
  /\ samples[SampleCap].stroke = SampleCap + 1
  /\ budget.adds < StoreAdds

\* C11: at most one Run PCA action is in flight: while one is between its start and
\* the return (or the rejection) of its runPCA2D call, pcaRunning is true and no Run
\* PCA action starts, so runPCA2D is never called while an earlier call has not
\* completed.
C11_OneRunInFlight ==
  /\ [](Cardinality(run) <= 1 /\ (run /= {} => pcaRunning))
  /\ [][RunPcaStep => (~pcaRunning /\ run = {})]_vars
  /\ [][pcaCalls' /= pcaCalls => (\A r \in run : r.pc /= "pca")]_vars

\* the second Run PCA, started after the first completed, is in its runPCA2D call
C11_Witness ==
  /\ pcaCalls = 2 /\ pcaRunning /\ budget.runs = MaxRuns - 2
  /\ \E r \in run : r.pc = "pca"

\* C16: a Run PCA that passes validation sets pcaRunning and yields (no runPCA2D call
\* in that step); runPCA2D is then called, with pcaRunning true, on the samples the
\* action captured when it started; pcaState is replaced by the result of that call
\* and pcaRunning is set back to false only then; runPCA2D is never called while
\* pcaRunning is false.
C16_RunPcaOrder ==
  /\ [][(RunPcaStep /\ Len(samples) >= 2 /\ SameSizes(samples) /\ samples[1].len /= 0)
          => /\ ~pcaRunning /\ pcaRunning'
             /\ run' = run \cup {[pc |-> "tick", samples |-> samples]}
             /\ pcaCalls' = pcaCalls /\ pcaState' = pcaState]_vars
  /\ [][pcaCalls' /= pcaCalls
          => /\ pcaRunning /\ pcaRunning'
             /\ pcaCalls' = pcaCalls + 1
             /\ pcaState' = pcaState
             /\ \E r \in run : /\ r.pc = "tick"
                               /\ run' = (run \ {r}) \cup {[r EXCEPT !.pc = "pca"]}]_vars
  /\ [][(pcaState' /= pcaState /\ pcaState' /= EmptyBasis)
          => /\ pcaRunning /\ ~pcaRunning'
             /\ \E r \in run : /\ r.pc = "pca" /\ run' = run \ {r}
                               /\ pcaState' = runPCA2DShape(r.samples)]_vars
  /\ [][(pcaRunning /\ ~pcaRunning')
          => \E r \in run : /\ r.pc = "pca" /\ run' = run \ {r}
                            /\ \/ pcaState' = runPCA2DShape(r.samples)
                               \/ pcaError' = "pca" /\ pcaState' = pcaState]_vars

\* a Run PCA has gone through its five events: its result is displayed
C16_Witness ==
  /\ pcaCalls = 1 /\ ~pcaRunning /\ run = {}
  /\ pcaState /= EmptyBasis /\ pcaState.from = samples /\ pcaError = ""

(***************************************************************************)
(* LiveSpec: Spec with the scheduling of a Run PCA in flight: the timeout  *)
(* of line 299 fires, and runPCA2D, whose loops are bounded, returns or    *)
(* throws.                                                                 *)
(***************************************************************************)
LiveSpec == Spec /\ WF_vars(runPcaTick) /\ WF_vars(runPcaDone \/ runPcaFails)

\* C19: pcaRunning is true exactly while a Run PCA action is in flight; a Run PCA that
\* returns early or rejects mixed sizes leaves it false; and every Run PCA in flight
\* ends (its result installed, or runPCA2D thrown), so pcaRunning, once true, becomes
\* false again.
C19_FlagCleared ==
  /\ [](pcaRunning <=> run /= {})
  /\ [][(RunPcaStep /\ run' = run) => ~pcaRunning']_vars
  /\ pcaRunning ~> ~pcaRunning

\* both Run PCA actions have ended, one by a throw of runPCA2D, and the flag is clear
C19_Witness ==
  /\ ~pcaRunning /\ run = {} /\ budget.runs = 0 /\ pcaCalls = MaxRuns
  /\ pcaError = "pca" /\ Len(samples) >= 2

\* C20, as stated: after a change of the embedding source pcaState is the empty
\* sentinel and currentPoint is null until a Run PCA started after the change
\* completes.  A Run PCA needs two stored samples and the change empties the store (which
\* otherwise only grows below SampleCap), so while fewer than two samples are stored
\* no Run PCA has started since the last change, or since the mount.
C20_ClearedUntilNewRun ==
  Len(samples) < 2 => (pcaState = EmptyBasis /\ currentPoint = Null)

(***************************************************************************)
(* The claims about the steps of runPCA2D, under HeapSpec.                 *)
(***************************************************************************)
\* runPCA2D has returned from line 174 (the pipeline has run)
PipelineReturned == hpc = "returned" /\ op = "runPCA2D" /\ loc.e2.v /= 0

\* C12, as stated: in every run of runPCA2D on N >= 2 samples of one dimension the
\* singular values that scale the two axes satisfy s1 >= s2 >= 0.
C12_SingularOrder ==
  (PipelineReturned /\ UniformArg)
    => /\ FLeq(Zero, loc.s2)
       /\ FLeq(loc.s2, loc.s1)

\* centerEmbeddings has returned: its mean and its rows are in the heap
Centered ==
  /\ op = "runPCA2D" /\ loc.mean /= 0
  /\ hpc \in {"gram", "top1", "deflate", "top2", "scores", "returned"}

\* the samples used: the newest PcaCap of the argument
UsedRows == rowsOf(Val(argEmb))

\* every coordinate of the argument is one of 0..MaxCoord
CoordsArg ==
  \A i \in 1..ArgN : \A d \in 1..ArgD : Val(Val(argEmb)[i])[d] \in {F(k) : k \in Coords}

\* the sum of coordinate d of the rows, counted in integers: k times the number of rows
\* whose coordinate is k, for k, k + 1, ..., MaxCoord
RECURSIVE IntSumFrom(_, _, _)
IntSumFrom(rows, d, k) ==
  IF k > MaxCoord THEN 0
  ELSE k * Cardinality({i \in 1..Len(rows) : rows[i][d] = F(k)})
       + IntSumFrom(rows, d, k + 1)

\* the tolerance of a sum of n centered coordinates: n roundings of 2^-MantBits of a
\* value of at most MaxCoord
SumTol(n) == FDiv(F(n * MaxCoord), F(2^MantBits))

\* C13, as stated: for N >= 2 vectors of one dimension D (of coordinates that are
\* integers of 0..MaxCoord, so that their sum can be counted), the mean of runPCA2D is, in
\* each coordinate, the sum of that coordinate over the samples used divided by their
\* number, the centered rows are the samples minus that mean and sum to zero in each
\* coordinate up to the tolerance, and the mean returned is that mean.
C13_Centering ==
  (Centered /\ UniformArg /\ CoordsArg)
    => /\ Len(heap[loc.mean]) = ArgD
       /\ Len(heap[loc.Xc]) = Len(UsedRows)
       /\ \A d \in 1..ArgD :
            /\ heap[loc.mean][d] = FDiv(F(IntSumFrom(UsedRows, d, 0)), F(Len(UsedRows)))
            /\ \A i \in 1..Len(UsedRows) :
                 Mat(heap, loc.Xc)[i][d] = FSub(UsedRows[i][d], heap[loc.mean][d])
            /\ FLeq(FAbs(sumColumn(Mat(heap, loc.Xc), d, 1, Zero)), SumTol(Len(UsedRows)))
       /\ (hpc = "returned" => res.mean = heap[loc.mean] /\ loc.rmean = loc.mean)

\* a run on more than PcaCap samples has centred its window, the mean being no
\* integer; and a run on three vectors has returned its mean
C13_Witness ==
  /\ Centered /\ UniformArg
  /\ \/ ArgN > PcaCap /\ heap[loc.mean][1] \notin {F(k) : k \in Coords}
     \/ hpc = "returned" /\ ArgN = 3 /\ ArgD = 2 /\ res.mean[1] = FDiv(F(1), F(3))

\* a < b, and x strictly between a and b
FLess(a, b) == FLeq(a, b) /\ a /= b
Between(x, a, b) == (FLess(a, x) /\ FLess(x, b)) \/ (FLess(b, x) /\ FLess(x, a))

\* C14, as stated: for [1,0,0,0], [0,1,0,0], [2,0,0,0] the axis-1 scores of the first
\* and the third sample have the same sign and are as 1 : 2 (up to the tolerance), and
\* on axis 2 the second sample is apart from them: its score is not between theirs.
C14_Scenario ==
  (PipelineReturned /\ argEmb = Some(Scenario))
    => /\ \/ FLess(Zero, res.points2d[1][1]) /\ FLess(Zero, res.points2d[3][1])
          \/ FLess(res.points2d[1][1], Zero) /\ FLess(res.points2d[3][1], Zero)
       /\ Close(res.points2d[3][1], FMul(F(2), res.points2d[1][1]))
       /\ ~Between(res.points2d[2][2], res.points2d[1][2], res.points2d[3][2])

\* no number of the rows of M is NaN
NoNaN(M) == \A i \in 1..Len(M) : \A j \in 1..Len(M[i]) : ~IsNaN(M[i][j])

\* a number that is neither NaN nor an infinity
Finite(f) == ~IsNaN(f) /\ ~IsInf(f)

\* the coordinates of the argument are finite numbers
FiniteArg ==
  \A i \in 1..ArgN : \A d \in 1..ArgD : Finite(Val(Val(argEmb)[i])[d])

\* lines 158-161 for one estimate and its singular value
ClampedRoot(lambda, sv) ==
  /\ lambda[1] < 0 => sv = Zero
  /\ lambda[1] >= 0 => sv = FSqrt(lambda)

\* C15, as stated: for N >= 2 vectors of one dimension and of finite numbers, s1 and
\* s2 are the square roots of the estimates clamped at zero, so that an estimate below
\* zero gives the singular value 0, and no entry of points2d or of components is NaN.
C15_NoNaNForFinite ==
  (PipelineReturned /\ UniformArg /\ FiniteArg)
    => /\ ClampedRoot(loc.e1.lambda, loc.s1) /\ ClampedRoot(loc.e2.lambda, loc.s2)
       /\ NoNaN(res.points2d) /\ NoNaN(res.components)

\* C15, amended: s1 and s2 are the square roots of the estimates clamped at zero, an
\* estimate below zero giving the singular value 0 and not NaN; and when both
\* estimates are finite numbers, s1 and s2 are finite and no entry of points2d or of
\* components, as returned and as in the arrays returned, is NaN.  (Finite inputs do
\* not make the estimates finite: a Gram entry beyond Float32 is Infinity.)
C15_ClampedNoNaN ==
  (PipelineReturned /\ UniformArg /\ FiniteArg)
    => /\ ClampedRoot(loc.e1.lambda, loc.s1) /\ ClampedRoot(loc.e2.lambda, loc.s2)
       /\ (Finite(loc.e1.lambda) /\ Finite(loc.e2.lambda))
            => /\ Finite(loc.s1) /\ Finite(loc.s2)
               /\ NoNaN(res.points2d) /\ NoNaN(res.components)
               /\ NoNaN(Mat(heap, loc.points2d)) /\ NoNaN(Mat(heap, loc.components))

\* a run whose second estimate, after the deflation, is below zero
C15_Witness ==
  /\ PipelineReturned /\ UniformArg /\ FiniteArg
  /\ Finite(loc.e1.lambda) /\ loc.e2.lambda[1] < 0 /\ Finite(loc.e2.lambda)
  /\ loc.s2 = Zero
  /\ Len(res.points2d) = ArgN /\ Len(res.components) = 2

\* C17, as stated: the arrays a caller passed to runPCA2D (the collection and each
\* vector, also when more than PcaCap vectors make the window) and to projectWithPCA
\* (the vector, the mean, components and its entries) hold what they held at the call;
\* a statement assigns only elements of arrays allocated in the invocation it belongs
\* to, never a caller's array or an array of an earlier invocation; the arrays a first
\* invocation returned hold its result while and after a second one runs, and the
\* second one returns what a single call with its arguments returns.
C17_ArgumentsUnchanged ==
  /\ [](/\ Len(heap) >= Len(heap0)
        /\ \A a \in 1..Len(heap0) : heap[a] = heap0[a])
  /\ [][/\ Len(heap') >= Len(heap)
        /\ \A a \in 1..Len(heap) : heap'[a] /= heap[a] => a > loc.base]_vars
  /\ []((op = "runPCA2D" /\ loc.calls = 2)
          => /\ ResultAt(heap, Val(loc.first)) = Val(loc.first).res
             /\ hpc = "returned" => res = runPCA2D(argEmb, rnd))

\* a second invocation on the same vectors has returned, each having deflated its own
\* Gram matrix, with points other than the first one's
C17_Witness ==
  /\ hpc = "returned" /\ op = "runPCA2D" /\ loc.calls = 2 /\ loc.deflations = 1
  /\ UniformArg /\ Val(loc.first).res.points2d /= res.points2d

\* gramMatrix has returned: G (its Float32Array rows) and A (their copies) are in the
\* heap, G right before the rows of A
Grammed == op = "runPCA2D" /\ loc.A /= 0
GramG == Mat(heap, loc.A - loc.N - 1)
GramA == Mat(heap, loc.A)
Deflated == Grammed /\ hpc \in {"top2", "scores", "returned"}

Symmetric(M) == \A i \in 1..Len(M) : \A j \in 1..Len(M) : M[i][j] = M[j][i]

\* x[1] * y[1] + ... + x[n] * y[n], added from the left
RECURSIVE InnerProduct(_, _, _)
InnerProduct(x, y, n) ==
  IF n = 0 THEN Zero ELSE FAdd(InnerProduct(x, y, n - 1), FMul(x[n], y[n]))

\* the Gram matrix: N rows of N entries, entry (i, j) the inner product (as a Float32)
\* of the centered rows i and j, symmetric; the deflation not yet applied before the
\* second power iteration and applied once from then on
GramAsStated ==
  /\ Grammed
       => /\ Len(GramG) = loc.N
          /\ \A i \in 1..loc.N :
               /\ Len(GramG[i]) = loc.N
               /\ \A j \in 1..loc.N :
                    GramG[i][j] = Stored(InnerProduct(Mat(heap, loc.Xc)[i],
                                                      Mat(heap, loc.Xc)[j],
                                                      Len(heap[loc.mean])))
          /\ Symmetric(GramG)
  /\ (Grammed /\ hpc \in {"top1", "deflate"}) => (loc.deflations = 0 /\ GramA = GramG)
  /\ Deflated
       => /\ loc.deflations = 1
          /\ \A i \in 1..loc.N : \A j \in 1..loc.N :
               GramA[i][j] = FSub(GramG[i][j],
                                  FMul(FMul(loc.e1.lambda, heap[loc.e1.v][i]),
                                       heap[loc.e1.v][j]))

\* C18, as stated: the Gram matrix is as above, and the matrix after the deflation is
\* symmetric.
C18_SymmetricAfterDeflation ==
  /\ GramAsStated
  /\ Deflated => Symmetric(GramA)

\* the roundings of A[i][j] and A[j][i]: lambda * v[i] * v[j] is rounded twice, in
\* another order for (j, i), and the difference once
SymTol(i, j) ==
  FMul(FAdd(FAbs(GramG[i][j]), FAbs(loc.e1.lambda)), FDiv(F(8), F(2^MantBits)))

\* C18, amended: the Gram matrix is as above (symmetric entry for entry, each entry
\* assigned), the deflation is applied once, between the two power iterations, and
\* the matrix after it, for a finite first estimate, is symmetric up to rounding:
\* A[i][j] and A[j][i] differ by no more than the roundings of lambda * v[i] * v[j].
C18_GramSymmetric ==
  /\ GramAsStated
  /\ (Deflated /\ UniformArg /\ Finite(loc.e1.lambda))
       => \A i \in 1..loc.N : \A j \in 1..loc.N :
            FLeq(FAbs(FSub(GramA[i][j], GramA[j][i])), SymTol(i, j))

\* the deflated matrix of three vectors, one entry differing from its mirror image
C18_Witness ==
  /\ Deflated /\ UniformArg /\ loc.N = 3 /\ Finite(loc.e1.lambda)
  /\ Symmetric(GramG) /\ GramG /= GramA
  /\ GramA[1][2] /= GramA[2][1]

(***************************************************************************)
(* The claims about the model load and the current point, under Spec.      *)
(***************************************************************************)
\* the asset of the selected model has been installed (cnnRef.current or
\* logregRef.current is set)
SelectedInstalled ==
  IF selectedModel = "pretrained-cnn" THEN cnnLoaded ELSE logregLoaded

\* a step in which a load ends whose effect has been cleaned up (the model was changed
\* after it started)
SupersededEnds == \E l \in load : l.cancelled /\ l \notin load'

\* C22, as stated: a load that ends after the selected model was changed leaves
\* modelReady, the installed models and the embedding node's name as they are, and
\* modelReady holds only when the asset of the selected model has been installed.
C22_SupersededLoadInert ==
  /\ [][SupersededEnds
         => UNCHANGED <<modelReady, cnnLoaded, logregLoaded, cnnEmbeddingOutName>>]_vars
  /\ [](modelReady => SelectedInstalled)

\* the basis has two components and a mean that is not empty and has the length of the
\* vector emb
Matching(emb, basis) ==
  /\ ~IsNull(emb)
  /\ basis.components = 2 /\ basis.mean /= 0
  /\ Val(emb).len = basis.mean

\* the point of the vector emb in the basis
PointOf(emb, basis) == Some([emb |-> Val(emb), from |-> basis.from])

\* a step in which the prediction p finishes (lines 258-270: the predictions are set),
\* and one in which the Run PCA r finishes (lines 304-311: runPCA2D has returned)
PredictEnds(p) == p \in pred /\ p \notin pred' /\ predictions' = p.stroke
RunEnds(r) == r \in run /\ r.pc = "pca" /\ r \notin run' /\ pcaError' = pcaError

\* C21, as stated: a prediction that finishes sets the current point to the projection
\* of the last embedding in the basis it holds if that basis has two components and a
\* non-empty mean of the last embedding's length, and to null otherwise; a Run PCA that
\* finishes does the same with the basis it has computed; no other step sets a point
\* that is not null; and the vector of a current point has the length of the first
\* sample (so of the mean) of the basis it was projected with.
C21_PointOnlyFromMatchingBasis ==
  /\ [][/\ \A p \in pred :
             PredictEnds(p)
               => currentPoint' = IF Matching(lastEmbedding', p.pcaState)
                                  THEN PointOf(lastEmbedding', p.pcaState)
                                  ELSE Null
        /\ \A r \in run :
             RunEnds(r)
               => currentPoint' = IF Matching(lastEmbedding', pcaState')
                                  THEN PointOf(lastEmbedding', pcaState')
                                  ELSE Null
        /\ (currentPoint' /= currentPoint /\ currentPoint' /= Null)
             => \/ \E p \in pred : PredictEnds(p)
                \/ \E r \in run : RunEnds(r)]_vars
  /\ [](currentPoint /= Null
          => /\ Len(Val(currentPoint).from) >= 2
             /\ Val(currentPoint).emb.len = Val(currentPoint).from[1].len)

\* a prediction has finished with a basis of another length than its vector's, and the
\* point is null; and a prediction has finished with a matching basis
C21_Witness ==
  \/ /\ currentPoint = Null /\ pcaState.components = 2 /\ predictions > 0
     /\ ~IsNull(lastEmbedding) /\ Val(lastEmbedding).stroke = predictions
     /\ Val(lastEmbedding).len /= pcaState.mean /\ pred = {} /\ run = {}
  \/ /\ currentPoint /= Null /\ pcaState.components = 2 /\ predictions = 2
     /\ Val(currentPoint).emb.stroke = 2 /\ pred = {} /\ run = {}
     /\ \A i \in 1..Len(pcaState.from) : pcaState.from[i].stroke = 1
====
